---- MODULE Spec2Model ----
(***************************************************************************)
(* Model of tap-facebook: the incremental extraction engine of             *)
(* tap_facebook/streams.py (FacebookAdsInsights) and the HTTP client of    *)
(* tap_facebook/client.py (Facebook.__do under ratelimit/backoff).         *)
(*                                                                         *)
(* Dates are day numbers: day 2009 stands for 2024-01-09, so 2005 is       *)
(* 2024-01-05.  A datetime is a record [day, tod] where tod = 0 is         *)
(* midnight and tod = 1 is any later time of that day.  ISO date strings   *)
(* of equal width compare like their dates, so a partition key            *)
(* ("YYYY-MM-DD") is its day number.  The local calendar date is taken to  *)
(* be the UTC date.                                                        *)
(***************************************************************************)
EXTENDS Integers, Sequences, FiniteSets, TLC

(* ---------------------------- bounds ---------------------------------- *)
MaxPolls == 3      \* polls of one report job
MaxEmit == 5       \* records written downstream for one account
MaxBack == 8       \* days a bookmark lies before today (partitioner alone)
MaxTries == 3      \* cap of the counters of requests and delays of one call
MaxPages == 3      \* pages the server holds for one listing
MaxItems == 2      \* items of a page that is not empty
TickSecs == 30     \* seconds that pass at once between two calls

(* ----------------------- program constants ---------------------------- *)
NoDate == 0                 \* Python None / missing bookmark
Today == 2009               \* date.today()
RetentionDays == 1110       \* 37 * 30
ClampDays == 1080           \* 36 * 30
DefaultAheadDays == 28      \* timedelta(weeks=4)
MaxSpanDays == 1            \* timedelta(days=1) of the chunking loop
JobRetryCap == 5            \* attempt < 5
JobRetrySleep == 20         \* time.sleep(20)
PollSleep == 2              \* time.sleep(2)
FlakyCode == 2601
FlakySubcode == 1815107
RATE_LIMIT_SUBCODE == 2446079
ADS_INSIGHTS_CODE == 80000
CUSTOM_AUDIENCE_CODE == 80003
ADS_MANAGEMENT == 80004
RateCalls == 20             \* ratelimit.limits(calls=20, ...)
RatePeriod == 60            \* ratelimit.limits(..., period=60)
ExpoBase == 2               \* backoff.expo

\* exceptions: FacebookRequestError (fb) with its api_error_code and
\* api_error_subcode, or any other exception
NoError == [fb |-> FALSE, code |-> 0, subcode |-> 0]
Errors == {[fb |-> TRUE, code |-> FlakyCode, subcode |-> FlakySubcode],
           [fb |-> TRUE, code |-> FlakyCode, subcode |-> 99],
           [fb |-> TRUE, code |-> 100, subcode |-> FlakySubcode],
           [fb |-> FALSE, code |-> FlakyCode, subcode |-> FlakySubcode]}

\* async_status values of an AdReportRun and one the code does not list
ContinueStatuses == {"Job Not Started", "Job Started", "Job Running",
                     "Job Completed"}
FailStatuses == {"Job Skipped", "Job Failed"}
Statuses == ContinueStatuses \cup FailStatuses \cup {"Job Paused"}
\* what a poll can answer: <<async_status, async_percent_completion>>
PollAnswers == {<<st, 60>> : st \in Statuses}
               \cup {<<"Job Completed", 100>>, <<"Job Running", 100>>}
NoPoll == <<"", 0>>

account_ids == <<1, 2>>
Accounts == {account_ids[i] : i \in 1..Len(account_ids)}

VARIABLES
    now,            \* datetime.utcnow() of the run
    config_start,   \* config["start_date"] parsed; day NoDate when unset
    state,          \* state[a]: bookmark day of account a, as last written
    acctIdx,        \* position of stream()'s loop in account_ids
    pc,             \* position inside process_account
    startBm,        \* bookmark of the account when process_account began
    since,          \* since of process_account
    from_date,      \* from_date of the chunking loop
    time_ranges,    \* sequence of <<start, stop>>
    rangeIdx,       \* position of the for loop in time_ranges
    attempt,        \* job-level retry counter of the current range
    prev_bookmark,  \* prev_bookmark of process_account
    polls,          \* polls made of the current report job
    lastPoll,       \* <<async_status, async_percent_completion>> last polled
    jobReturn,      \* which return of __run_adreport was taken
    emitted,        \* records written for the current account: <<range, key>>
    written,        \* how many of them were, when the job in hand was submitted
    lastSleep,      \* seconds slept by the last step
    advanced,       \* bookmark the last step gave __advance_bookmark, if any
    caught,         \* the exception the retry handler caught last
    raised,         \* the exception that escaped process_account
    cpc,            \* position of a call of Facebook.__do
    num_calls,      \* ratelimit: calls counted in the current period
    requests,       \* HTTP requests sent in the current period
    paginate,       \* __do: the argument paginate of the calls
    ret,            \* __do: the value the last call returned
    ppc,            \* __paginate: where the generator is
    url,            \* __paginate: the page its next call asks for
    yielded,        \* __paginate: the items it has yielded
    fetched,        \* the pages the server has answered with (history)
    elapsed,        \* ratelimit: clock() - last_reset, up to the period
    tries,          \* backoff: requests made by the current call
    waitIdx,        \* backoff: delays drawn from backoff.expo by this call
    lastResp,       \* the response of the last request that failed
    throttleSleep,  \* seconds is_throttle slept in the last step
    backoffMax      \* the delay backoff drew in the last step, before jitter

streamVars == <<now, config_start, state, acctIdx, pc, startBm, since,
                from_date, time_ranges, rangeIdx, attempt, prev_bookmark,
                polls, lastPoll, jobReturn, emitted, written, lastSleep,
                advanced, caught, raised>>

clientVars == <<cpc, num_calls, requests, paginate, ret, ppc, url, yielded,
               fetched, elapsed, tries, waitIdx, lastResp,
                throttleSleep, backoffMax>>

vars == <<streamVars, clientVars>>

(* ------------------------- pure helpers ------------------------------- *)
\* a - b > timedelta(days=n) on datetimes
DtDiffGreater(a, b, n) ==
    \/ a.day - b.day > n
    \/ a.day - b.day = n /\ a.tod > b.tod

\* __get_start: the bookmark of the account, else the configured start
\* date, else now + 4 weeks
GetStart(st, acct, nw, cfg) ==
    LET default_date == IF cfg.day # NoDate THEN cfg
                        ELSE [day |-> nw.day + DefaultAheadDays, tod |-> nw.tod]
    IN  IF \A a \in Accounts : st[a] = NoDate THEN default_date
        ELSE IF st[acct] = NoDate THEN default_date
        ELSE [day |-> st[acct], tod |-> 0]

\* a start that resumes on the bookmark itself, with no day of overlap
SinceWithoutOverlap(start_date, nw) ==
    IF DtDiffGreater(nw, start_date, RetentionDays)
    THEN nw.day - ClampDays
    ELSE start_date.day

\* the retention override, else one day of overlap; then utils.parse_date
Since(start_date, nw) ==
    IF DtDiffGreater(nw, start_date, RetentionDays)
    THEN nw.day - ClampDays
    ELSE start_date.day - 1

Until(nw) == nw.day - 1

\* an advance that writes the bookmark under every account of the state
AdvanceBookmarkEveryAccount(st, acct, bookmark) ==
    IF bookmark = NoDate THEN st
    ELSE [a \in Accounts |-> bookmark]

\* __advance_bookmark: no bookmark leaves the state as it is
AdvanceBookmark(st, acct, bookmark) ==
    IF bookmark = NoDate THEN st
    ELSE [st EXCEPT ![acct] = bookmark]

(* ----------------------------- Init ----------------------------------- *)
NoConfig == [day |-> NoDate, tod |-> 0]

InitRest ==
    /\ acctIdx = 1
    /\ pc = "account"
    /\ startBm = NoDate
    /\ since = NoDate
    /\ from_date = NoDate
    /\ time_ranges = << >>
    /\ rangeIdx = 1
    /\ attempt = 0
    /\ prev_bookmark = NoDate
    /\ polls = 0
    /\ lastPoll = NoPoll
    /\ jobReturn = "none"
    /\ emitted = << >>
    /\ written = 0
    /\ lastSleep = 0
    /\ advanced = NoDate
    /\ caught = NoError
    /\ raised = NoError

(* ------------------------- the client's state ------------------------- *)
\* a failed request: no response at all (a RequestException that is no
\* HTTPError), a body that is not JSON, a JSON body without "error", or an
\* "error" object; usage is the x-business-use-case-usage header
NoHeader == [present |-> FALSE, eta |-> << >>]
Usage(etas) == [present |-> TRUE, eta |-> etas]
NoEta == 0 - 1
Response(kind, transient, code, subcode, usage) ==
    [kind |-> kind, is_transient |-> transient, code |-> code,
     error_subcode |-> subcode, usage |-> usage]
NoResp == Response("ok", FALSE, 0, 0, NoHeader)

\* a response body: the list under "data" and whether "paging" has a "next"
Page(u, len, next) == [data |-> [i \in 1..len |-> <<u, i>>], next |-> next]

NoRet == [data |-> <<>>, next |-> FALSE]

InitClient ==
    /\ cpc = "idle"
    /\ paginate = FALSE
    /\ ret = NoRet
    /\ ppc = "off"
    /\ url = 1
    /\ yielded = <<>>
    /\ fetched = <<>>
    /\ num_calls = 0
    /\ requests = 0
    /\ elapsed = 0
    /\ tries = 0
    /\ waitIdx = 0
    /\ lastResp = NoResp
    /\ throttleSleep = 0
    /\ backoffMax = 0

\* a first run (no state), and resumed runs on bookmarks earlier runs wrote
Bookmarks(b1, b2) == [a \in Accounts |-> IF a = 1 THEN b1 ELSE b2]

Init ==
    /\ now = [day |-> Today, tod |-> 1]
    /\ \/ config_start = NoConfig /\ state = Bookmarks(NoDate, NoDate)
       \/ config_start = NoConfig /\ state = Bookmarks(2005, 2008)
       \/ config_start = [day |-> 2008, tod |-> 1]
          /\ state = Bookmarks(NoDate, NoDate)
    /\ InitRest
    /\ InitClient

(* ------------------- process_account, step by step -------------------- *)
Acct == account_ids[acctIdx]

\* stream(): the next account; process_account up to the chunking
StartAccount ==
    /\ pc = "account"
    /\ acctIdx <= Len(account_ids)
    /\ since' = Since(GetStart(state, Acct, now, config_start), now)
    /\ from_date' = since'
    /\ IF Until(now) - since' > 1
       THEN /\ time_ranges' = << >>
            /\ pc' = "chunk"
       ELSE /\ time_ranges' = << <<since', Until(now)>> >>
            /\ pc' = "submit"
    /\ startBm' = state[Acct]
    /\ prev_bookmark' = NoDate
    /\ rangeIdx' = 1
    /\ attempt' = 0
    /\ polls' = 0
    /\ lastPoll' = NoPoll
    /\ jobReturn' = "none"
    /\ emitted' = << >>
    /\ written' = 0
    /\ lastSleep' = 0
    /\ advanced' = NoDate
    /\ caught' = NoError
    /\ UNCHANGED <<now, config_start, state, acctIdx, raised>>

\* a chunking that starts the next range on the day the last one ended
NextFromOverlapping(to_date) == to_date

\* "add one to to_date to make intervals non-overlapping"
NextFrom(to_date) == to_date + 1

\* one pass of the while True loop that chunks [since, until], and the
\* trailing interval when the loop breaks
Chunk ==
    /\ pc = "chunk"
    /\ LET to_date == from_date + MaxSpanDays
       IN  IF to_date > Until(now)
           THEN /\ time_ranges' = IF from_date <= Until(now)
                                  THEN Append(time_ranges,
                                              <<from_date, Until(now)>>)
                                  ELSE time_ranges
                /\ pc' = "submit"
                /\ UNCHANGED from_date
           ELSE /\ time_ranges' = Append(time_ranges, <<from_date, to_date>>)
                /\ from_date' = NextFrom(to_date)
                /\ UNCHANGED pc
    /\ UNCHANGED <<now, config_start, state, acctIdx, startBm, since,
                   rangeIdx, attempt, prev_bookmark, polls, lastPoll,
                   jobReturn, emitted, written, lastSleep, advanced, caught,
                   raised>>

\* a retry that takes either the code or the subcode for the flaky error
RetriesJobEitherCode(e, att) ==
    /\ e.fb
    /\ e.code = FlakyCode \/ e.subcode = FlakySubcode
    /\ att < JobRetryCap

\* the condition of the retry in "except FacebookRequestError"
RetriesJob(e, att) ==
    /\ e.fb
    /\ e.code = FlakyCode
    /\ e.subcode = FlakySubcode
    /\ att < JobRetryCap

\* the except clauses of process_account for an exception e raised by the
\* body of the while True loop
HandleError(e) ==
    IF RetriesJob(e, attempt)
    THEN /\ lastSleep' = JobRetrySleep
         /\ attempt' = attempt + 1
         /\ caught' = e
         /\ pc' = "submit"
         /\ advanced' = NoDate
         /\ UNCHANGED <<state, raised>>
    ELSE /\ state' = AdvanceBookmark(state, Acct, prev_bookmark)
         /\ advanced' = prev_bookmark
         /\ raised' = e
         /\ pc' = "aborted"
         /\ lastSleep' = 0
         /\ UNCHANGED <<attempt, caught>>

\* __run_adreport: get_insights(is_async=True)
Submit ==
    /\ pc = "submit"
    /\ \/ /\ pc' = "poll"
          /\ written' = Len(emitted)
          /\ lastSleep' = 0
          /\ advanced' = NoDate
          /\ UNCHANGED <<state, attempt, caught, raised>>
       \/ (\E e \in Errors : HandleError(e)) /\ UNCHANGED written
    /\ polls' = 0
    /\ lastPoll' = NoPoll
    /\ jobReturn' = "none"
    /\ UNCHANGED <<now, config_start, acctIdx, startBm, since, from_date,
                   time_ranges, rangeIdx, prev_bookmark, emitted>>

\* a poller that takes "Job Completed" for done whatever the percentage
PollOutcomeIgnoringPercent(status, pct) ==
    IF status \in FailStatuses THEN "failed"
    ELSE IF status = "Job Completed" THEN "completed"
    ELSE IF status \in ContinueStatuses THEN "sleep"
    ELSE "spin"

\* a poller that gives a job up on a status it does not know
PollOutcomeGivingUp(status, pct) ==
    IF status \in FailStatuses THEN "failed"
    ELSE IF status = "Job Completed" /\ pct = 100 THEN "completed"
    ELSE IF status \in ContinueStatuses THEN "sleep"
    ELSE "failed"

\* a poller that goes on polling a failed job
PollOutcomePollingFailed(status, pct) ==
    IF status = "Job Completed" /\ pct = 100 THEN "completed"
    ELSE IF status \in ContinueStatuses \cup FailStatuses THEN "sleep"
    ELSE "spin"

\* one pass of the while True loop of __run_adreport on a poll that
\* answered (status, pct): the return taken, or the way the loop goes on
PollOutcome(status, pct) ==
    IF status \in FailStatuses THEN "failed"
    ELSE IF status = "Job Completed" /\ pct = 100 THEN "completed"
    ELSE IF status \in ContinueStatuses THEN "sleep"
    ELSE "spin"

Returns(out) == out \in {"failed", "completed"}

\* a counter that stops at cap
Count(n, cap) == IF n < cap THEN n + 1 ELSE n

\* __run_adreport: async_job.api_get() answers, and the rest of the loop
\* body. The loop counts nothing and reads no clock: only a return ends it.
\* With explored set, the runs explored stop short of MaxPolls polls of a
\* job that has not returned; without it the counter stops at MaxPolls.
Polls(explored) ==
    /\ pc = "poll"
    /\ \E answer \in PollAnswers :
         LET out == PollOutcome(answer[1], answer[2])
         IN  /\ explored /\ ~Returns(out) => polls + 1 < MaxPolls
             /\ polls' = Count(polls, MaxPolls)
             /\ lastPoll' = answer
             /\ jobReturn' = IF Returns(out) THEN out ELSE "none"
             /\ pc' = IF Returns(out) THEN "result" ELSE "poll"
             /\ lastSleep' = IF out = "sleep" THEN PollSleep ELSE 0
    /\ advanced' = NoDate
    /\ UNCHANGED <<now, config_start, state, acctIdx, startBm, since,
                   from_date, time_ranges, rangeIdx, attempt, prev_bookmark,
                   emitted, written, caught, raised>>

Poll == Polls(TRUE)

\* __run_adreport: async_job.api_get() raises
PollError ==
    /\ pc = "poll"
    /\ \E e \in Errors : HandleError(e)
    /\ UNCHANGED <<now, config_start, acctIdx, startBm, since, from_date,
                   time_ranges, rangeIdx, prev_bookmark, polls, lastPoll,
                   jobReturn, emitted, written>>

\* process_account: result.get_result() on whatever __run_adreport returned
GetResult ==
    /\ pc = "result"
    /\ \/ /\ pc' = "emit"
          /\ lastSleep' = 0
          /\ advanced' = NoDate
          /\ UNCHANGED <<state, attempt, caught, raised>>
       \/ \E e \in Errors : HandleError(e)
    /\ UNCHANGED <<now, config_start, acctIdx, startBm, since, from_date,
                   time_ranges, rangeIdx, prev_bookmark, polls, lastPoll,
                   jobReturn, emitted, written>>

\* prev_bookmark after "if not prev_bookmark: prev_bookmark = new_bookmark"
FirstPrev(prev, new_bookmark) == IF prev = NoDate THEN new_bookmark ELSE prev

\* "if prev_bookmark < new_bookmark"
Advances(prev, new_bookmark) == FirstPrev(prev, new_bookmark) < new_bookmark

\* an advance to the key just seen instead of the one before it
LaggedValueNewKey(prev, new_bookmark) == new_bookmark

\* the value the record loop hands to __advance_bookmark
LaggedValue(prev, new_bookmark) == FirstPrev(prev, new_bookmark)

\* the keys the server can return for the range <<start, stop>>
RangeKeys(r) == r[1]..r[2]

\* one pass of the for loop over ads_insights_result
EmitRecord ==
    /\ pc = "emit"
    /\ Len(emitted) < MaxEmit
    /\ \E new_bookmark \in RangeKeys(time_ranges[rangeIdx]) :
           /\ emitted' = Append(emitted, <<rangeIdx, new_bookmark>>)
           /\ IF Advances(prev_bookmark, new_bookmark)
              THEN /\ state' = AdvanceBookmark(state, Acct,
                                   LaggedValue(prev_bookmark, new_bookmark))
                   /\ advanced' = LaggedValue(prev_bookmark, new_bookmark)
                   /\ prev_bookmark' = new_bookmark
              ELSE /\ prev_bookmark' = FirstPrev(prev_bookmark, new_bookmark)
                   /\ advanced' = NoDate
                   /\ UNCHANGED state
    /\ lastSleep' = 0
    /\ UNCHANGED <<now, config_start, acctIdx, pc, startBm, since, from_date,
                   time_ranges, rangeIdx, attempt, polls, lastPoll, jobReturn,
                   written, caught, raised>>

\* the cursor raises while the records are iterated (it fetches lazily)
EmitError ==
    /\ pc = "emit"
    /\ \E e \in Errors : HandleError(e)
    /\ UNCHANGED <<now, config_start, acctIdx, startBm, since, from_date,
                   time_ranges, rangeIdx, prev_bookmark, polls, lastPoll,
                   jobReturn, emitted, written>>

\* a final advance that always goes to until
FinalBookmarkUntil(prev, until) == until

\* the bookmark of the final __advance_bookmark
FinalBookmark(prev, until) == IF prev = NoDate THEN until ELSE prev

\* the result is exhausted: break, then the next range or the final
\* advance and the next account
EndOfResult ==
    /\ pc = "emit"
    /\ IF rangeIdx < Len(time_ranges)
       THEN /\ rangeIdx' = rangeIdx + 1
            /\ pc' = "submit"
            /\ advanced' = NoDate
            /\ UNCHANGED <<state, acctIdx>>
       ELSE /\ state' = AdvanceBookmark(state, Acct,
                                        FinalBookmark(prev_bookmark, Until(now)))
            /\ advanced' = FinalBookmark(prev_bookmark, Until(now))
            /\ acctIdx' = acctIdx + 1
            /\ pc' = IF acctIdx < Len(account_ids) THEN "account" ELSE "done"
            /\ UNCHANGED rangeIdx
    /\ attempt' = 0
    /\ caught' = NoError
    /\ lastSleep' = 0
    /\ UNCHANGED <<now, config_start, startBm, since, from_date, time_ranges,
                   prev_bookmark, polls, lastPoll, jobReturn, emitted, written,
                   raised>>

Next ==
    \/ StartAccount /\ UNCHANGED clientVars
    \/ Chunk /\ UNCHANGED clientVars
    \/ Submit /\ UNCHANGED clientVars
    \/ Poll /\ UNCHANGED clientVars
    \/ PollError /\ UNCHANGED clientVars
    \/ GetResult /\ UNCHANGED clientVars
    \/ EmitRecord /\ UNCHANGED clientVars
    \/ EmitError /\ UNCHANGED clientVars
    \/ EndOfResult /\ UNCHANGED clientVars

Spec == Init /\ [][Next]_vars

(* ------------- the jobs of one range, polled without bound ------------- *)
PollAgain == Polls(FALSE)

NextPoller ==
    \/ Submit /\ UNCHANGED clientVars
    \/ PollAgain /\ UNCHANGED clientVars
    \/ PollError /\ UNCHANGED clientVars
    \/ GetResult /\ UNCHANGED clientVars
    \/ EmitRecord /\ UNCHANGED clientVars
    \/ EmitError /\ UNCHANGED clientVars
    \/ EndOfResult /\ UNCHANGED clientVars

\* the first account, resumed on today's bookmark, has its one range
InitPoller ==
    /\ now = [day |-> Today, tod |-> 1]
    /\ config_start = NoConfig
    /\ state = Bookmarks(Today, NoDate)
    /\ acctIdx = 1
    /\ pc = "submit"
    /\ startBm = Today
    /\ since = Today - 1
    /\ from_date = Today - 1
    /\ time_ranges = << <<Today - 1, Today - 1>> >>
    /\ rangeIdx = 1
    /\ attempt = 0
    /\ prev_bookmark = NoDate
    /\ polls = 0
    /\ lastPoll = NoPoll
    /\ jobReturn = "none"
    /\ emitted = << >>
    /\ written = 0
    /\ lastSleep = 0
    /\ advanced = NoDate
    /\ caught = NoError
    /\ raised = NoError
    /\ InitClient

\* process_account goes on running as long as it has not ended
SpecPoller == InitPoller /\ [][NextPoller]_vars /\ WF_vars(NextPoller)

(* ---- the partitioner alone, over start dates of every kind ----------- *)
InitRanges ==
    /\ now \in {[day |-> Today, tod |-> t] : t \in {0, 1}}
    /\ config_start \in {NoConfig, [day |-> Today - 4, tod |-> 1],
                         [day |-> Today - RetentionDays, tod |-> 1]}
    /\ state \in {Bookmarks(b, NoDate) :
                    b \in {NoDate, Today - RetentionDays}
                          \cup (Today - MaxBack)..(Today + 1)}
    /\ InitRest
    /\ InitClient

NextRanges ==
    \/ StartAccount /\ UNCHANGED clientVars
    \/ Chunk /\ UNCHANGED clientVars

SpecRanges == InitRanges /\ [][NextRanges]_vars

TypeOK ==
    /\ state \in [Accounts -> Int]
    /\ pc \in {"account", "chunk", "submit", "poll", "result", "emit",
               "aborted", "done"}
    /\ attempt \in 0..JobRetryCap

(* ------------------- Facebook.__do and is_throttle -------------------- *)
\* the failed requests a call can meet
Responses ==
    {Response("none", FALSE, 0, 0, NoHeader),
     Response("nonjson", FALSE, 0, 0, NoHeader),
     Response("noerror", FALSE, 0, 0, NoHeader),
     Response("error", FALSE, 190, 0, NoHeader),
     Response("error", FALSE, ADS_INSIGHTS_CODE, RATE_LIMIT_SUBCODE,
              Usage(<<1>>)),
     Response("error", TRUE, 190, RATE_LIMIT_SUBCODE, Usage(<<1>>)),
     Response("error", TRUE, ADS_INSIGHTS_CODE, 0, Usage(<<1>>)),
     Response("error", TRUE, CUSTOM_AUDIENCE_CODE, RATE_LIMIT_SUBCODE,
              Usage(<<1>>)),
     Response("error", TRUE, ADS_MANAGEMENT, RATE_LIMIT_SUBCODE,
              Usage(<<2>>))}
    \cup {Response("error", TRUE, ADS_INSIGHTS_CODE, RATE_LIMIT_SUBCODE, u) :
            u \in {NoHeader, Usage(<< >>), Usage(<<NoEta>>), Usage(<<0, 1>>),
                   Usage(<<1>>), Usage(<<NoEta, 2>>)}}

\* the first "estimated_time_to_regain_access" of the usage entries
FirstEta(etas) ==
    LET I == {i \in 1..Len(etas) : etas[i] # NoEta}
    IN  IF I = {} THEN NoEta
        ELSE etas[CHOOSE i \in I : \A j \in I : i <= j]

Verdict(crash, giveup, sleep) ==
    [crash |-> crash, giveup |-> giveup, sleep |-> sleep]

\* is_throttle, the giveup predicate of backoff: what it returns, the
\* seconds it sleeps, and whether it raises itself
IsThrottle(r) ==
    IF r.kind \in {"none", "nonjson"} THEN Verdict(TRUE, FALSE, 0)
    ELSE IF r.kind = "noerror" THEN Verdict(FALSE, TRUE, 0)
    ELSE IF ~r.is_transient THEN Verdict(FALSE, TRUE, 0)
    ELSE IF ~(/\ r.code \in {ADS_INSIGHTS_CODE, ADS_MANAGEMENT,
                             CUSTOM_AUDIENCE_CODE}
              /\ r.error_subcode = RATE_LIMIT_SUBCODE)
         THEN Verdict(FALSE, FALSE, 0)
    ELSE IF ~r.usage.present \/ r.usage.eta = << >>
         THEN Verdict(FALSE, FALSE, 0)
    ELSE IF FirstEta(r.usage.eta) \in {NoEta, 0}
         THEN Verdict(FALSE, FALSE, 0)
    ELSE Verdict(FALSE, FALSE, FirstEta(r.usage.eta) * 60)

\* backoff.expo: the n-th delay drawn, counting from 0
RECURSIVE Expo(_)
Expo(n) == IF n = 0 THEN 1 ELSE ExpoBase * Expo(n - 1)

Saturate(t) == IF t > RatePeriod THEN RatePeriod ELSE t

\* the requests of the period after session.request() is called once more
Sent(n, t) == IF t < RatePeriod THEN Count(n, RateCalls + 1) ELSE n

\* the wrapper of ratelimit.limits(raise_on_limit=False): the period is
\* renewed when it has run out, the call is counted, and a call over the
\* limit returns None without calling the function
CallDo ==
    /\ cpc = "idle" \/ (cpc = "returned" /\ ~paginate)
    /\ paginate => ppc = "fetch"
    /\ LET renew == RatePeriod - elapsed <= 0
           n == (IF renew THEN 0 ELSE num_calls) + 1
       IN  /\ num_calls' = n
           /\ requests' = IF renew THEN 0 ELSE requests
           /\ elapsed' = IF renew THEN 0 ELSE elapsed
           /\ cpc' = IF n > RateCalls THEN "skipped" ELSE "try"
    /\ tries' = 0
    /\ waitIdx' = 0
    /\ lastResp' = NoResp
    /\ throttleSleep' = 0
    /\ backoffMax' = 0
    /\ UNCHANGED <<paginate, ret, ppc, url, yielded, fetched>>
    /\ UNCHANGED streamVars

\* the bodies the server can answer the request for page u with
Pages(u) == {Page(u, len, next) : len \in {0, MaxItems},
                                 next \in {FALSE, u < MaxPages}}

\* one pass of the loop of backoff.on_exception: the request succeeds, and
\* __do returns the data alone, or the data and the next cursor
DoSucceeds ==
    /\ cpc = "try"
    /\ tries' = Count(tries, MaxTries)
    /\ requests' = Sent(requests, elapsed)
    /\ cpc' = "returned"
    /\ IF paginate
       THEN \E page \in Pages(url) : /\ ret' = page
                                      /\ fetched' = Append(fetched, page)
       ELSE ret' = Page(url, MaxItems, FALSE) /\ UNCHANGED fetched
    /\ lastResp' = NoResp
    /\ throttleSleep' = 0
    /\ backoffMax' = 0
    /\ UNCHANGED <<num_calls, elapsed, waitIdx, paginate, ppc, url, yielded>>
    /\ UNCHANGED streamVars

\* one pass of the loop of backoff.on_exception: the request fails,
\* is_throttle is asked whether to give up, and otherwise the next delay of
\* backoff.expo is slept, with full jitter, before the next pass. The
\* decorator names no max_tries and no max_time: nothing but giveup ends the
\* loop. With explored set, the runs explored stop short of MaxTries failed
\* requests in a call; without it the counters stop at MaxTries instead.
Fails(explored) ==
    /\ cpc = "try"
    /\ \E r \in Responses :
         LET v == IsThrottle(r)
         IN  /\ lastResp' = r
             /\ tries' = Count(tries, MaxTries)
             /\ throttleSleep' = v.sleep
             /\ IF v.crash \/ v.giveup
                THEN /\ cpc' = "failed"
                     /\ backoffMax' = 0
                     /\ elapsed' = Saturate(elapsed + v.sleep)
                     /\ UNCHANGED waitIdx
                ELSE /\ explored => tries + 1 < MaxTries
                     /\ cpc' = "try"
                     /\ backoffMax' = Expo(waitIdx)
                     /\ waitIdx' = Count(waitIdx, MaxTries)
                     /\ \E jitter \in {0, Expo(waitIdx)} :
                          elapsed' = Saturate(elapsed + v.sleep + jitter)
    /\ requests' = Sent(requests, elapsed)
    /\ UNCHANGED <<num_calls, paginate, ret, ppc, url, yielded, fetched>>
    /\ UNCHANGED streamVars

DoFails == Fails(TRUE)

\* time passes between two calls
TimePasses ==
    /\ cpc \in {"idle", "returned"}
    /\ elapsed < RatePeriod
    /\ elapsed' = Saturate(elapsed + TickSecs)
    /\ UNCHANGED <<cpc, num_calls, requests, tries, waitIdx, lastResp,
                   throttleSleep, backoffMax>>
    /\ UNCHANGED <<paginate, ret, ppc, url, yielded, fetched>>
    /\ UNCHANGED streamVars

NextClient ==
    \/ CallDo
    \/ DoSucceeds
    \/ DoFails
    \/ TimePasses

InitClientSpec ==
    /\ now = [day |-> Today, tod |-> 1]
    /\ config_start = NoConfig
    /\ state = Bookmarks(NoDate, NoDate)
    /\ InitRest
    /\ InitClient

SpecClient == InitClientSpec /\ [][NextClient]_vars

(* ------------------- one call of __do, left to run ------------------- *)
DoFailsAgain == Fails(FALSE)

NextRetry ==
    \/ DoSucceeds
    \/ DoFailsAgain

\* a first call of __do that ratelimit has let through
InitRetry ==
    /\ now = [day |-> Today, tod |-> 1]
    /\ config_start = NoConfig
    /\ state = Bookmarks(NoDate, NoDate)
    /\ InitRest
    /\ cpc = "try"
    /\ paginate = FALSE
    /\ ret = NoRet
    /\ ppc = "off"
    /\ url = 1
    /\ yielded = <<>>
    /\ fetched = <<>>
    /\ num_calls = 1
    /\ requests = 0
    /\ elapsed = 0
    /\ tries = 0
    /\ waitIdx = 0
    /\ lastResp = NoResp
    /\ throttleSleep = 0
    /\ backoffMax = 0

\* the loop of backoff goes on as long as the call has not ended
SpecRetry == InitRetry /\ [][NextRetry]_vars /\ WF_vars(NextRetry)

(* ------------------------- client.py: __paginate ------------------------- *)
\* one pass of the loop of __paginate after its call of __do has ended. A
\* call ratelimit skipped returned None, which "data, next = ..." cannot
\* unpack; an exception of __do leaves the generator.
PaginateStoppingOnEmpty ==
    /\ paginate /\ ppc = "fetch"
    /\ cpc \in {"returned", "skipped", "failed"}
    /\ IF cpc = "skipped"
       THEN ppc' = "crashed" /\ UNCHANGED <<cpc, url, yielded>>
       ELSE IF cpc = "failed"
       THEN ppc' = "raised" /\ UNCHANGED <<cpc, url, yielded>>
       ELSE /\ yielded' = yielded \o ret.data
            /\ IF ~ret.next \/ ret.data = <<>>
               THEN ppc' = "done" /\ UNCHANGED <<cpc, url>>
               ELSE ppc' = "fetch" /\ url' = url + 1 /\ cpc' = "idle"
    /\ UNCHANGED <<num_calls, requests, paginate, ret, fetched, elapsed, tries,
                   waitIdx, lastResp, throttleSleep, backoffMax>>
    /\ UNCHANGED streamVars

Paginate ==
    /\ paginate /\ ppc = "fetch"
    /\ cpc \in {"returned", "skipped", "failed"}
    /\ IF cpc = "skipped"
       THEN ppc' = "crashed" /\ UNCHANGED <<cpc, url, yielded>>
       ELSE IF cpc = "failed"
       THEN ppc' = "raised" /\ UNCHANGED <<cpc, url, yielded>>
       ELSE /\ yielded' = IF ret.data # <<>> THEN yielded \o ret.data
                                             ELSE yielded
            /\ IF ~ret.next
               THEN ppc' = "done" /\ UNCHANGED <<cpc, url>>
               ELSE ppc' = "fetch" /\ url' = url + 1 /\ cpc' = "idle"
    /\ UNCHANGED <<num_calls, requests, paginate, ret, fetched, elapsed, tries,
                   waitIdx, lastResp, throttleSleep, backoffMax>>
    /\ UNCHANGED streamVars

NextPaginate ==
    \/ CallDo
    \/ DoSucceeds
    \/ DoFails
    \/ TimePasses
    \/ Paginate

\* list_insights starts __paginate on the first page; earlier calls of the
\* period, if any, have been counted
InitPaginate ==
    /\ now = [day |-> Today, tod |-> 1]
    /\ config_start = NoConfig
    /\ state = Bookmarks(NoDate, NoDate)
    /\ InitRest
    /\ cpc = "idle"
    /\ paginate = TRUE
    /\ ret = NoRet
    /\ ppc = "fetch"
    /\ url = 1
    /\ yielded = <<>>
    /\ fetched = <<>>
    /\ num_calls \in {0, RateCalls - 2}
    /\ requests = num_calls
    /\ elapsed = 0
    /\ tries = 0
    /\ waitIdx = 0
    /\ lastResp = NoResp
    /\ throttleSleep = 0
    /\ backoffMax = 0

SpecPaginate == InitPaginate /\ [][NextPaginate]_vars

(* ====================== properties of the client ====================== *)
FailedRequest == cpc = "try" /\ lastResp' # NoResp

\* C9: a request that fails with a body carrying no "error" object is
\* retried under backoff, not given up.
C9_MissingErrorBodyRetried ==
    [][FailedRequest /\ lastResp'.kind = "noerror" => cpc' = "try"]_vars

\* C10: a rate-limit error with a truthy estimated_time_to_regain_access of
\* m minutes makes the client sleep m * 60 seconds and retry with its
\* backoff state fresh: no delay is drawn from backoff.expo for that cycle.
C10_RateLimitWaitKeepsBackoffFresh ==
    [][FailedRequest /\ throttleSleep' > 0
          => /\ throttleSleep' = FirstEta(lastResp'.usage.eta) * 60
             /\ cpc' = "try"
             /\ waitIdx' = 0
             /\ backoffMax' = 0]_vars

\* C11: no more than 20 HTTP requests are sent in a period of 60 seconds,
\* the requests that backoff repeats for one call of __do included.
C11_RequestsWithinCap ==
    requests <= RateCalls

\* the items of the pages p[1..n], in the order of the pages
RECURSIVE Items(_, _)
Items(p, n) == IF n = 0 THEN <<>> ELSE Items(p, n - 1) \o p[n].data

\* the pages __paginate has gone through: all the server answered with, but
\* the one __do has just returned
Handled == IF cpc = "returned" /\ ppc = "fetch" THEN Len(fetched) - 1
                                                ELSE Len(fetched)

\* C12: __paginate yields the items of every page it fetched, in the order of
\* the server, none dropped and none twice; it asks for the page after each
\* cursor, fetches nothing after a page without cursor, and ends normally
\* exactly there, the page being empty or not; an empty page with a cursor
\* does not end it.
C12_PaginateYieldsEveryPage ==
    paginate =>
      /\ yielded = Items(fetched, Handled)
      /\ \A i \in 1..Len(fetched) :
           /\ \A j \in 1..Len(fetched[i].data) : fetched[i].data[j] = <<i, j>>
           /\ i < Len(fetched) => fetched[i].next
      /\ ppc = "done" <=>
           /\ Handled = Len(fetched)
           /\ fetched # <<>>
           /\ ~fetched[Len(fetched)].next
      /\ ppc = "fetch" /\ Handled = Len(fetched) => url = Len(fetched) + 1

C12_Witness ==
    /\ ppc = "done"
    /\ Len(fetched) = 3
    /\ Len(fetched[1].data) = MaxItems
    /\ fetched[2].data = <<>>
    /\ fetched[3].data = <<>>
    /\ yielded = fetched[1].data

\* C18: a call of __do over the 20 of the period is delayed and then made:
\* ratelimit never skips it, and its caller gets a result it can use, no
\* error coming from the local cap alone.
C18_CapDelaysNeverSkips ==
    cpc # "skipped" /\ ppc # "crashed"

\* a transient error that is not a rate-limit one
TransientOther(r) ==
    /\ r.kind = "error"
    /\ r.is_transient
    /\ ~(/\ r.code \in {ADS_INSIGHTS_CODE, ADS_MANAGEMENT, CUSTOM_AUDIENCE_CODE}
         /\ r.error_subcode = RATE_LIMIT_SUBCODE)

\* C14: a call of __do whose requests keep failing with a transient error
\* that is not a rate-limit one does not go on retrying for ever: after a
\* capped number of requests it ends, the error surfaced.
C14_TransientRetriesEnd ==
    []<>(~(cpc = "try" /\ TransientOther(lastResp)))

(* ====================== properties of the engine ====================== *)
Keys(log) == [i \in 1..Len(log) |-> log[i][2]]
KeySet(log) == {log[i][2] : i \in 1..Len(log)}
MaxOf(S) == CHOOSE x \in S : \A y \in S : y <= x
Sorted(q) == \A i \in 1..(Len(q) - 1) : q[i] <= q[i + 1]
InFlight == pc \in {"submit", "poll", "result", "emit"}
IsFlaky(e) == e.fb /\ e.code = FlakyCode /\ e.subcode = FlakySubcode

\* C1: the bookmark persisted for an account never decreases, over the
\* lagged advances, the error-path advance and the final advance of a run
\* that resumes from a persisted bookmark.
C1_BookmarkNeverDecreases ==
    [][\A a \in Accounts : state[a] # NoDate => state'[a] >= state[a]]_vars

\* C2: when an error escapes process_account, the error-path flush leaves
\* the account's bookmark at the value last advanced before the error.
C2_ErrorFlushKeepsLastAdvanced ==
    [][pc # "aborted" /\ pc' = "aborted" => state'[Acct] = state[Acct]]_vars

\* C3: a record advances the bookmark only when its key is strictly greater
\* than the key seen before it, and then to prev_bookmark, never to the new
\* key; for keys emitted in non-decreasing order the bookmark in flight is
\* the greatest key below the last one (untouched while one key was seen),
\* and the final advance of the account writes the last key.
C3_RecordStep ==
    Len(emitted') = Len(emitted) + 1 /\ advanced' # NoDate
        => /\ Len(emitted) > 0
           /\ emitted'[Len(emitted')][2] > emitted[Len(emitted)][2]
           /\ advanced' = prev_bookmark
           /\ advanced' < emitted'[Len(emitted')][2]
           /\ state'[Acct] = advanced'

C3_InFlight ==
    InFlight /\ Sorted(Keys(emitted))
        => LET K == KeySet(emitted)
           IN  /\ prev_bookmark = IF K = {} THEN NoDate ELSE MaxOf(K)
               /\ state[Acct] = IF Cardinality(K) >= 2
                                THEN MaxOf(K \ {MaxOf(K)})
                                ELSE startBm

C3_FinalStep ==
    acctIdx' = acctIdx + 1 /\ emitted # << >> /\ Sorted(Keys(emitted))
        => state'[Acct] = emitted[Len(emitted)][2]

C3_LaggedAdvance ==
    /\ []C3_InFlight
    /\ [][C3_RecordStep /\ C3_FinalStep]_vars

\* C3 witness: keys [d1, d1, d2, d2, d3] were emitted, the bookmark is d2
\* and d3 is held back
C3_Witness ==
    /\ pc = "emit"
    /\ Keys(emitted) = <<2005, 2005, 2007, 2007, 2008>>
    /\ state[Acct] = 2007
    /\ prev_bookmark = 2008

\* C4: for since <= until the ranges start at since, end at until, each
\* begins one day after the end of the one before, none is longer than
\* MaxSpanDays, and every day of [since, until] lies in exactly one range.
C4_Partition ==
    pc \notin {"account", "chunk"} /\ since <= Until(now)
        => LET n == Len(time_ranges)
           IN  /\ n >= 1
               /\ time_ranges[1][1] = since
               /\ time_ranges[n][2] = Until(now)
               /\ \A i \in 1..n :
                     /\ time_ranges[i][1] <= time_ranges[i][2]
                     /\ time_ranges[i][2] - time_ranges[i][1] <= MaxSpanDays
               /\ \A i \in 1..(n - 1) :
                     time_ranges[i + 1][1] = time_ranges[i][2] + 1
               /\ \A d \in since..Until(now) :
                     Cardinality({i \in 1..n : /\ time_ranges[i][1] <= d
                                               /\ d <= time_ranges[i][2]}) = 1

\* C4 witness: a chunked span whose last range is the trailing interval
C4_Witness ==
    /\ pc = "submit"
    /\ since <= Until(now)
    /\ Len(time_ranges) >= 3
    /\ time_ranges[Len(time_ranges)] = <<Until(now), Until(now)>>

\* C13: an account resumed on a persisted bookmark X inside the retention
\* window asks for ranges the first of which starts at X - 1 day exactly, and
\* none of which holds a date before X - 1 day.
C13_ResumeOverlapsOneDay ==
    (/\ pc \notin {"account", "chunk"}
     /\ startBm # NoDate
     /\ ~DtDiffGreater(now, [day |-> startBm, tod |-> 0], RetentionDays))
        => /\ time_ranges # << >>
           /\ time_ranges[1][1] = startBm - 1
           /\ \A i \in 1..Len(time_ranges) :
                 \A d \in time_ranges[i][1]..time_ranges[i][2] :
                    d >= startBm - 1

\* C13 witness: the ranges of a run resumed on the bookmark of four days ago
C13_Witness ==
    /\ pc = "submit"
    /\ startBm = Today - 4
    /\ Len(time_ranges) = 3
    /\ time_ranges[1] = <<Today - 5, Today - 4>>

\* C15: the range of every report job process_account has submitted has
\* since <= until, whichever start date __get_start resolved.
C15_SubmittedRangeOrdered ==
    pc \in {"poll", "result", "emit"}
        => time_ranges[rangeIdx][1] <= time_ranges[rangeIdx][2]

\* C16: in one run of process_account no record of a range is written
\* downstream twice: a record written before the job in hand was submitted,
\* by a job for the same range that the flaky error ended, is not written
\* again by the job that retries it.
C16_NoRecordWrittenTwice ==
    \A i \in 1..written : \A j \in (written + 1)..Len(emitted) :
        emitted[i] # emitted[j]

\* C20: no step taken for an account, its advances in the record loop, on
\* the error path and at the end included, changes the bookmark of another
\* account: when an account aborts, the accounts before it have the
\* bookmarks they finished with.
C20_AccountIndependence ==
    [][\A a \in Accounts : a # Acct => state'[a] = state[a]]_vars

\* C20 witness: the second account aborted after an error-path advance, the
\* first one having finished on another bookmark
C20_Witness ==
    /\ pc = "aborted"
    /\ acctIdx = 2
    /\ advanced # NoDate
    /\ state[2] = advanced
    /\ state[1] # NoDate
    /\ state[1] # state[2]

\* the account that has just completed, and the bookmark X it resumed from
Completed == pc \in {"account", "done"} /\ acctIdx > 1
Resumed == /\ startBm # NoDate
           /\ startBm <= Until(now)
           /\ ~DtDiffGreater(now, [day |-> startBm, tod |-> 0], RetentionDays)
DoneAcct == account_ids[acctIdx - 1]

\* C5 as stated: a resumed account that completes has bookmark U whatever
\* records were returned.
C5_FinalBookmarkIsUntil ==
    Completed /\ Resumed => state[DoneAcct] = Until(now)

\* C5 amended: the ranges of a resumed account start at X - 1 day and are
\* taken in increasing order to the last one, and at completion the
\* bookmark is the greatest key emitted, or U when no record was emitted;
\* bookmark 2024-01-05 with until 2024-01-08 gives the three ranges of the
\* example.
C5_ResumeToCompletion ==
    Completed /\ Resumed
        => /\ time_ranges[1][1] = startBm - 1
           /\ \A i \in 1..(Len(time_ranges) - 1) :
                 time_ranges[i][2] < time_ranges[i + 1][1]
           /\ rangeIdx = Len(time_ranges)
           /\ Sorted([i \in 1..Len(emitted) |-> emitted[i][1]])
           /\ state[DoneAcct] = IF emitted = << >> THEN Until(now)
                                ELSE MaxOf(KeySet(emitted))
           /\ startBm = 2005 /\ Until(now) = 2008
                 => time_ranges = << <<2004, 2005>>, <<2006, 2007>>,
                                     <<2008, 2008>> >>

\* C5 witness: the example run completed on records that stop at 01-06
C5_Witness ==
    /\ Completed /\ Resumed
    /\ startBm = 2005
    /\ time_ranges = << <<2004, 2005>>, <<2006, 2007>>, <<2008, 2008>> >>
    /\ emitted # << >>
    /\ state[DoneAcct] = 2006

IsSuccess(answer) == answer = <<"Job Completed", 100>>
KeepsPolling(answer) ==
    \/ answer[1] \in {"Job Not Started", "Job Started", "Job Running"}
    \/ answer[1] = "Job Completed" /\ answer[2] < 100
PollStep == pc = "poll" /\ polls' = polls + 1

\* C6: __run_adreport returns through its completion branch only on a poll
\* answering "Job Completed" with 100 percent; a poll answering Not
\* Started, Started, Running, or Completed below 100 keeps the loop going
\* to another poll, so the poll that returns is the first one that does not.
C6_PollerStateMachine ==
    /\ [](jobReturn = "completed" => IsSuccess(lastPoll))
    /\ [](pc = "poll" /\ polls > 0 =>
             ~IsSuccess(lastPoll) /\ lastPoll[1] \notin FailStatuses)
    /\ [][PollStep /\ KeepsPolling(lastPoll')
             => pc' = "poll" /\ jobReturn' = "none"]_vars
    /\ [][PollStep /\ IsSuccess(lastPoll')
             => pc' = "result" /\ jobReturn' = "completed"]_vars

\* C6 witness: the third poll of a job answered Completed(100) and returned
C6_Witness ==
    /\ pc = "result"
    /\ polls = 3
    /\ lastPoll = <<"Job Completed", 100>>
    /\ jobReturn = "completed"

\* C17: between two polls of a job that follow each other, the poller sleeps
\* 2 seconds, whatever status the first of them answered.
C17_SleepBetweenPolls ==
    [][PollStep /\ pc' = "poll" => lastSleep' = PollSleep]_vars

\* a poll of SpecPoller, where polls stops counting, and the answers that
\* end a job
PollerStep == pc = "poll" /\ pc' \in {"poll", "result"}
Terminal(answer) == IsSuccess(answer) \/ answer[1] \in FailStatuses

\* C19: a poll the job answers with none of Completed(100), Failed, Skipped
\* leaves the poller polling, however many polls it has made; and if from
\* some poll on the job answers with one of them, __run_adreport ends.
C19_PollerLiveness ==
    /\ [][PollerStep /\ ~Terminal(lastPoll') => pc' = "poll"]_vars
    /\ [][pc = "poll" /\ pc' = "result" => Terminal(lastPoll')]_vars
    /\ (<>[][PollerStep => Terminal(lastPoll')]_vars)
          => [](pc = "poll" => <>(pc # "poll"))

\* C19 witness: a job that was polled MaxPolls times or more, and was
\* returned when it answered Skipped
C19_Witness ==
    /\ pc = "result"
    /\ polls = MaxPolls
    /\ lastPoll[1] = "Job Skipped"
    /\ jobReturn = "failed"

\* C7 as stated: the result of a job that the poller saw failed or skipped
\* is not read by process_account.
C7_FailedJobNotRead ==
    ~(jobReturn = "failed" /\ pc = "emit")

\* C7 amended: a poll answering "Job Failed" or "Job Skipped" ends the
\* polling at once, without a sleep, and returns the job handle as a
\* completed job is returned; no poll of that job follows, and
\* process_account goes on to get_result() of it.
C7_FailedStopsPolling ==
    /\ [][PollStep /\ lastPoll'[1] \in FailStatuses
             => pc' = "result" /\ jobReturn' = "failed" /\ lastSleep' = 0]_vars
    /\ [][jobReturn = "failed" /\ jobReturn' = "failed" => polls' = polls]_vars
    /\ [](jobReturn = "failed" => lastPoll[1] \in FailStatuses)

\* C7 witness: records of a failed job are being read
C7_Witness ==
    /\ jobReturn = "failed"
    /\ lastPoll[1] = "Job Failed"
    /\ pc = "emit"
    /\ emitted # << >>

\* C8: the flaky error (2601/1815107) makes the range be submitted again
\* after a 20 s sleep while fewer than 5 retries were made for that range;
\* with 5 retries made it escapes, any other error escapes at once, and the
\* count starts at 0 for each range.
C8_JobRetry ==
    /\ [](attempt <= JobRetryCap)
    /\ [][attempt' = attempt + 1
             => /\ IsFlaky(caught')
                /\ lastSleep' = JobRetrySleep
                /\ pc' = "submit"
                /\ rangeIdx' = rangeIdx
                /\ state' = state
                /\ raised' = raised]_vars
    /\ [][pc # "aborted" /\ pc' = "aborted"
             => /\ IsFlaky(raised') => attempt = JobRetryCap
                /\ attempt' = attempt]_vars
    /\ [][rangeIdx' # rangeIdx => attempt' = 0]_vars

\* C8 witness: the sixth flaky error of the second range escaped
C8_Witness ==
    /\ pc = "aborted"
    /\ IsFlaky(raised)
    /\ attempt = JobRetryCap
    /\ rangeIdx = 2

====
